---- MODULE Spec2Model ----
(***************************************************************************)
(* A model of exclave's event bus (src/unitbroadcaster.rs) and of the      *)
(* scenario compatibility / test ordering logic (src/units/scenario.rs).   *)
(*                                                                         *)
(* The bus is modelled with several publisher/subscriber threads that run  *)
(* broadcast() and subscribe() step by step around the Mutex that guards   *)
(* the Vec of senders.  A channel is a queue of delivered events plus a    *)
(* flag telling whether its Receiver is still alive.                       *)
(***************************************************************************)
EXTENDS Integers, Sequences, FiniteSets, TLC

\* ------------------------------------------------------------------ bounds
MaxSubs == 3        \* channels ever created by subscribe()
MaxEvents == 2      \* broadcast() calls ever started
MaxHandles == 2     \* UnitBroadcaster values (the original and its clones)

MaxReqs == 1        \* requirements one test declares
MaxTests == 2       \* entries of a scenario's Tests list
MaxAssume == 1      \* entries of a scenario's Assume list

MaxLog == 7         \* status events emitted by the manager

Threads == {"t1", "t2"}
Chans == 1..MaxSubs
Events == 1..MaxEvents
Handles == 1..MaxHandles
Lists == 1..MaxHandles      \* heap cells able to hold a Vec of senders

VARIABLES
    \* --- the bus
    bus,        \* bus[h]: the list cell handle h points to (0: handle not created)
    senders,    \* senders[l]: the Vec<Sender<UnitEvent>> in cell l, as channel ids
    mutex,      \* mutex[l]: the thread holding the Mutex of cell l, or "free"
    alive,      \* alive[c]: the Receiver of channel c has not been dropped
    queue,      \* queue[c]: the events enqueued on channel c, oldest first
    nchan,      \* channels registered so far (a channel is numbered when pushed)
    nev,        \* broadcast calls started so far (the call number is the event)
    \* --- each thread's position and locals
    pc, lst, ev, idx, to_remove,
    \* --- history (what the callers observed), read by the properties only
    hist,       \* hist[e]: facts about the call broadcast(e)
    sub_hist,   \* sub_hist[c]: facts about the subscribe() call that made c
    sub_call,   \* sub_call[t]: facts about the subscribe() call t is running
    fresh,      \* fresh[t]: no subscribe/drop since t took the lock
    quiet,      \* quiet[l]: broadcasts run wholly on l since the last subscribe/drop
    dead0       \* dead0[l]: dead entries in l at the last subscribe/drop

VARIABLES
    \* --- the manager's registries and one parsed scenario file
    registry,    \* manager.get_tests(): UnitName -> the test's declared dependencies
    loaded_jigs, \* the jigs manager.jig_is_loaded() answers true for
    desc,        \* the ScenarioDescription: jigs, tests, assumptions
    \* --- the last call on the description and what it returned
    call,        \* "none", "get_test_order", "is_compatible" or "select"
    result,      \* the Result returned (order or reason), or a panic
    scenario,    \* the Scenario that select built, if any
    dep_graph    \* the dependency graph the call built: node name -> node

scen_vars == <<registry, loaded_jigs, desc, call, result, scenario, dep_graph>>

VARIABLES
    \* --- the units the manager drives, and the status events it has emitted
    unit_state,  \* unit_state[u]: where unit u stands in its lifecycle
    status_log,  \* the UnitStatusEvents handed to broadcast(), oldest first
    notify       \* the last file notification: the constructor called, its path
                 \* and the Option<UnitStatusEvent> it returned

life_vars == <<unit_state, status_log, notify>>

bus_vars == <<bus, senders, mutex, alive, queue, nchan, nev,
              pc, lst, ev, idx, to_remove,
              hist, sub_hist, sub_call, fresh, quiet, dead0>>

vars == <<bus_vars, scen_vars, life_vars>>

\* ----------------------------------------------------------------- helpers
Range(s) == {s[i] : i \in 1..Len(s)}

Count(x, s) == Cardinality({i \in 1..Len(s) : s[i] = x})

\* Vec::remove(idx) with a 0-based idx: drops the element, shifting the rest left.
VecRemove(s, i) == SubSeq(s, 1, i) \o SubSeq(s, i + 2, Len(s))

\* A push that lands on the slot of the previous push (a lost update).
VecPushOverwrite(s, x) == IF s = <<>> THEN <<x>> ELSE [s EXCEPT ![Len(s)] = x]

\* Vec::push
VecPush(s, x) == Append(s, x)

Registered == 1..nchan

DeadEntries(s, a) == Cardinality({i \in 1..Len(s) : ~a[s[i]]})

NoEvent == [thread |-> "none", handle |-> 0, started_with |-> {},
            dead_at_start |-> {}, snapshot |-> <<>>, failed |-> {}, done |-> FALSE]

NoSub == [handle |-> 0, done_before |-> {}]

\* -------------------------------------------------------------------- Init
\* UnitBroadcaster::new(): one handle, pointing at an empty Vec behind a free Mutex.
new ==
    /\ bus = [h \in Handles |-> IF h = 1 THEN 1 ELSE 0]
    /\ senders = [l \in Lists |-> <<>>]
    /\ mutex = [l \in Lists |-> "free"]

BusInit ==
    /\ new
    /\ alive = [c \in Chans |-> FALSE]
    /\ queue = [c \in Chans |-> <<>>]
    /\ nchan = 0
    /\ nev = 0
    /\ pc = [t \in Threads |-> "idle"]
    /\ lst = [t \in Threads |-> 0]
    /\ ev = [t \in Threads |-> 0]
    /\ idx = [t \in Threads |-> 0]
    /\ to_remove = [t \in Threads |-> -1]
    /\ hist = [e \in Events |-> NoEvent]
    /\ sub_hist = [c \in Chans |-> NoSub]
    /\ sub_call = [t \in Threads |-> NoSub]
    /\ fresh = [t \in Threads |-> FALSE]
    /\ quiet = [l \in Lists |-> 0]
    /\ dead0 = [l \in Lists |-> 0]

\* ------------------------------------------------------------------- clone
\* #[derive(Clone)] on a struct holding an Arc: the clone points at the same cell.
CloneDeep(h, h2) ==
    LET l2 == CHOOSE l \in Lists : \A g \in Handles : bus[g] # l
    IN  /\ bus' = [bus EXCEPT ![h2] = l2]
        /\ senders' = [senders EXCEPT ![l2] = senders[bus[h]]]

clone(h, h2) ==
    /\ bus' = [bus EXCEPT ![h2] = bus[h]]
    /\ senders' = senders

Clone ==
    \E h, h2 \in Handles :
        /\ bus[h] # 0
        /\ bus[h2] = 0
        /\ \A g \in Handles : g < h2 => bus[g] # 0
        /\ clone(h, h2)
        /\ UNCHANGED <<scen_vars, life_vars, mutex, alive, queue, nchan, nev, pc, lst, ev, idx,
                       to_remove, hist, sub_hist, sub_call, fresh, quiet, dead0>>

\* ------------------------------------------------------------------- mutex
\* Mutex::lock() returns only while no other thread holds the guard.
LockAlways(l) == TRUE

\* A read-write lock taken for reading by broadcast: publishers share it.
LockSharedByPublishers(l) ==
    mutex[l] = "free" \/ \E u \in Threads : mutex[l] = u /\ pc[u] = "bc_send"

lock_available(l) == mutex[l] = "free"

\* --------------------------------------------------------------- broadcast
\* broadcast(&self, event): enters broadcast_core with this handle's Arc.
broadcast(t, h) ==
    /\ pc[t] = "idle"
    /\ bus[h] # 0
    /\ nev < MaxEvents
    /\ nev' = nev + 1
    /\ pc' = [pc EXCEPT ![t] = "bc_lock"]
    /\ lst' = [lst EXCEPT ![t] = bus[h]]
    /\ ev' = [ev EXCEPT ![t] = nev + 1]
    /\ hist' = [hist EXCEPT ![nev + 1] =
                  [NoEvent EXCEPT !.thread = t, !.handle = h,
                                  !.started_with = Registered,
                                  !.dead_at_start = {c \in Registered : ~alive[c]}]]
    /\ UNCHANGED <<scen_vars, life_vars, bus, senders, mutex, alive, queue, nchan, idx, to_remove,
                   sub_hist, sub_call, fresh, quiet, dead0>>

\* let mut to_remove = None;
\* let mut notify_senders_ref = senders.lock().unwrap();
broadcast_core_lock(t) ==
    /\ pc[t] = "bc_lock"
    /\ lock_available(lst[t])
    /\ mutex' = [mutex EXCEPT ![lst[t]] = t]
    /\ idx' = [idx EXCEPT ![t] = 0]
    /\ to_remove' = [to_remove EXCEPT ![t] = -1]
    /\ pc' = [pc EXCEPT ![t] = "bc_send"]
    /\ hist' = [hist EXCEPT ![ev[t]].snapshot = senders[lst[t]]]
    /\ fresh' = [fresh EXCEPT ![t] = TRUE]
    /\ UNCHANGED <<scen_vars, life_vars, bus, senders, alive, queue, nchan, nev, lst, ev,
                   sub_hist, sub_call, quiet, dead0>>

\* Sender::send on the unbounded channel() never waits for the consumer.
SendReadyBounded(c) == Len(queue[c]) < 1

send_ready(c) == TRUE

\* Sender::send: Err once the Receiver is gone, else the event is enqueued.
send_ok(c) == alive[c]

\* One event.clone() is enqueued by a successful send, behind what is queued.
SendTwice(q, e) == Append(Append(q, e), e)

EnqueueFront(q, e) == <<e>> \o q

enqueue(q, e) == Append(q, e)

\* to_remove after one iteration of the loop over (idx, sender).
ToRemoveFirst(old, i, ok) == IF ok \/ old # -1 THEN old ELSE i

ToRemoveAny(old, i, ok) == i

to_remove_next(old, i, ok) == IF ok THEN old ELSE i

\* The Vec while it is being iterated: it is borrowed, nothing is removed yet.
IterEager(s, i, ok) == IF ok THEN s ELSE VecRemove(s, i)

iter_list(s, i, ok) == s

\* for (idx, sender) in notify_senders_ref.iter().enumerate() { ... }: one iteration,
\* or the end of the loop.
broadcast_core_send(t) ==
    /\ pc[t] = "bc_send"
    /\ LET l == lst[t]
           i == idx[t]
       IN  IF i < Len(senders[l])
           THEN LET c == senders[l][i + 1]
                    ok == send_ok(c)
                IN  /\ send_ready(c)
                    /\ queue' = IF ok THEN [queue EXCEPT ![c] = enqueue(@, ev[t])]
                                ELSE queue
                    /\ to_remove' = [to_remove EXCEPT ![t] = to_remove_next(@, i, ok)]
                    /\ senders' = [senders EXCEPT ![l] = iter_list(@, i, ok)]
                    /\ idx' = [idx EXCEPT ![t] = i + 1]
                    /\ hist' = IF ok THEN hist
                               ELSE [hist EXCEPT ![ev[t]].failed = @ \cup {c}]
                    /\ pc' = pc
           ELSE /\ pc' = [pc EXCEPT ![t] = "bc_remove"]
                /\ UNCHANGED <<scen_vars, life_vars, queue, to_remove, senders, idx, hist>>
    /\ UNCHANGED <<scen_vars, life_vars, bus, mutex, alive, nchan, nev, lst, ev,
                   sub_hist, sub_call, fresh, quiet, dead0>>

\* if let Some(idx) = to_remove { notify_senders_ref.remove(idx); }
RemoveNothing(s, r) == s

\* Vec::swap_remove in place of Vec::remove: the last element fills the hole.
RemoveSwapping(s, r) ==
    IF r = -1 THEN s
    ELSE IF r + 1 = Len(s) THEN SubSeq(s, 1, r)
    ELSE SubSeq([s EXCEPT ![r + 1] = s[Len(s)]], 1, Len(s) - 1)

\* Vec::retain on the liveness of the receivers.
RemoveAllDead(s, r) == SelectSeq(s, LAMBDA c : alive[c])

remove_failed(s, r) == IF r = -1 THEN s ELSE VecRemove(s, r)

\* The end of broadcast_core: the removal, then the guard goes out of scope.
\* Vec::remove panics on an index past the end; the Mutex is then poisoned.
broadcast_core_remove(t) ==
    /\ pc[t] = "bc_remove"
    /\ LET l == lst[t]
           r == to_remove[t]
       IN  IF r # -1 /\ r >= Len(senders[l])
           THEN /\ pc' = [pc EXCEPT ![t] = "panicked"]
                /\ mutex' = [mutex EXCEPT ![l] = "poisoned"]
                /\ UNCHANGED <<scen_vars, life_vars, senders, hist, quiet, lst, ev, idx,
                               to_remove, fresh>>
           ELSE /\ senders' = [senders EXCEPT ![l] = remove_failed(@, r)]
                /\ mutex' = [mutex EXCEPT ![l] = IF @ = t THEN "free" ELSE @]
                /\ pc' = [pc EXCEPT ![t] = "idle"]
                /\ hist' = [hist EXCEPT ![ev[t]].done = TRUE]
                /\ quiet' = [quiet EXCEPT ![l] = IF fresh[t] THEN @ + 1 ELSE @]
                /\ lst' = [lst EXCEPT ![t] = 0]
                /\ ev' = [ev EXCEPT ![t] = 0]
                /\ idx' = [idx EXCEPT ![t] = 0]
                /\ to_remove' = [to_remove EXCEPT ![t] = -1]
                /\ fresh' = [fresh EXCEPT ![t] = FALSE]
    /\ UNCHANGED <<scen_vars, life_vars, bus, alive, queue, nchan, nev, sub_hist, sub_call, dead0>>

\* --------------------------------------------------------------- subscribe
\* let (sender, receiver) = channel();
subscribe(t, h) ==
    /\ pc[t] = "idle"
    /\ bus[h] # 0
    /\ nchan + Cardinality({u \in Threads : pc[u] = "sub_push"}) < MaxSubs
    /\ lst' = [lst EXCEPT ![t] = bus[h]]
    /\ pc' = [pc EXCEPT ![t] = "sub_push"]
    /\ sub_call' = [sub_call EXCEPT ![t] =
                      [handle |-> h, done_before |-> {e \in Events : hist[e].done}]]
    /\ UNCHANGED <<scen_vars, life_vars, bus, senders, mutex, alive, queue, nchan, nev, ev, idx,
                   to_remove, hist, sub_hist, fresh, quiet, dead0>>

\* self.senders.lock().unwrap().push(sender); receiver
\* The guard is a temporary of the statement: lock, push and unlock are one step.
\* The new channel takes the next number when its sender is pushed.
subscribe_push(t) ==
    /\ pc[t] = "sub_push"
    /\ lock_available(lst[t])
    /\ LET c == nchan + 1
       IN  /\ nchan' = c
           /\ alive' = [alive EXCEPT ![c] = TRUE]
           /\ senders' = [senders EXCEPT ![lst[t]] = VecPush(@, c)]
           /\ sub_hist' = [sub_hist EXCEPT ![c] = sub_call[t]]
           /\ dead0' = [l \in Lists |-> DeadEntries(senders'[l], alive')]
    /\ sub_call' = [sub_call EXCEPT ![t] = NoSub]
    /\ lst' = [lst EXCEPT ![t] = 0]
    /\ pc' = [pc EXCEPT ![t] = "idle"]
    /\ fresh' = [u \in Threads |-> FALSE]
    /\ quiet' = [l \in Lists |-> 0]
    /\ UNCHANGED <<scen_vars, life_vars, bus, mutex, queue, nev, ev, idx, to_remove, hist>>

\* ---------------------------------------------------------------- receiver
\* The owner of a Receiver that subscribe() returned drops it.
drop_receiver(c) ==
    /\ c \in Registered
    /\ alive[c]
    /\ alive' = [alive EXCEPT ![c] = FALSE]
    /\ fresh' = [u \in Threads |-> FALSE]
    /\ quiet' = [l \in Lists |-> 0]
    /\ dead0' = [l \in Lists |-> DeadEntries(senders[l], alive')]
    /\ UNCHANGED <<scen_vars, life_vars, bus, senders, mutex, queue, nchan, nev, pc, lst, ev, idx,
                   to_remove, hist, sub_hist, sub_call>>

\* ================================================================ scenarios
\* ---------------------------------------------------------------- UnitName
TestIds == {"a", "b", "c"}
JigIds == {"j1", "j2"}
UnitKinds == {"jig", "test", "scenario"}

UnitName(id, kind) == [id |-> id, kind |-> kind]

TestNames == {UnitName(i, "test") : i \in TestIds}
JigNames == {UnitName(i, "jig") : i \in JigIds}

\* A name as text: "<stem>.<ext>", or a bare "<stem>" (ext = "").
Text(stem, ext) == [stem |-> stem, ext |-> ext]

\* UnitName's Display: the id, a dot, the kind.
to_string(n) == Text(n.id, n.kind)

\* UnitName::from_str(s, default_kind): the kind is the text after the dot, or the
\* default for a bare name; an unknown kind is an error.
from_str(s, default_kind) ==
    LET kind == IF s.ext = "" THEN default_kind ELSE s.ext
    IN  IF kind \in UnitKinds
        THEN [ok |-> TRUE, name |-> UnitName(s.stem, kind)]
        ELSE [ok |-> FALSE, name |-> UnitName("", "")]

Contains(s, x) == \E i \in 1..Len(s) : s[i] = x

\* ------------------------------------------------------- dependency nodes
NoStrings == <<>>

\* An assumption node that keeps what the test provides.
AssumptionKeepingProvides(name, test) ==
    [name |-> name, requirements |-> NoStrings,
     suggestions |-> NoStrings, provides |-> test.provides]

\* AssumptionDependency::new(name)
AssumptionWithDeps(name, test) ==
    [name |-> name, requirements |-> test.requirements,
     suggestions |-> test.suggestions, provides |-> test.provides]

AssumptionDependency(name, test) ==
    [name |-> name, requirements |-> NoStrings,
     suggestions |-> NoStrings, provides |-> NoStrings]

\* Test's implementation of Dependency: its own name and declared lists.
TestDependency(name, test) ==
    [name |-> to_string(name), requirements |-> test.requirements,
     suggestions |-> test.suggestions, provides |-> test.provides]

\* ------------------------------------------------------------ the resolver
Ok(order) == [ok |-> TRUE, order |-> order, reason |-> "none"]
Err(reason) == [ok |-> FALSE, order |-> <<>>, reason |-> reason]

\* The node that satisfies a required name: the node of that name, or one that
\* lists the name among its provides.
Providers(graph, r) ==
    {n \in DOMAIN graph : n = r \/ Contains(graph[n].provides, r)}

Provider(graph, r) ==
    IF r \in DOMAIN graph THEN r ELSE CHOOSE n \in Providers(graph, r) : TRUE

RECURSIVE Visit(_, _, _, _)
RECURSIVE VisitAll(_, _, _, _)

\* Depth-first: a node is placed after everything it requires.
Visit(graph, r, path, st) ==
    IF ~st.ok THEN st
    ELSE IF Providers(graph, r) = {} THEN Err("DependencyNotFound")
    ELSE LET n == Provider(graph, r)
         IN  IF n \in path THEN Err("CircularDependency")
             ELSE IF Contains(st.order, n) THEN st
             ELSE LET below == VisitAll(graph, graph[n].requirements,
                                        path \cup {n}, st)
                  IN  IF below.ok THEN Ok(Append(below.order, n)) ELSE below

VisitAll(graph, names, path, st) ==
    IF ~st.ok \/ names = <<>> THEN st
    ELSE VisitAll(graph, Tail(names), path, Visit(graph, Head(names), path, st))

\* Dependy::resolve_named_dependencies(&test_names)
resolve_named_dependencies(graph, names) == VisitAll(graph, names, {}, Ok(<<>>))

\* ------------------------------------------------------------ the manager
\* UnitManager::jig_is_loaded
jig_is_loaded(jigs, name) == name \in jigs

\* UnitManager::get_test: the shared handle of a registered test.
Arc(name) == [arc |-> name]

get_test(tests, name) ==
    IF name \in DOMAIN tests THEN [some |-> TRUE, handle |-> Arc(name)]
    ELSE [some |-> FALSE, handle |-> Arc(UnitName("", ""))]

\* ---------------------------------------------------- ScenarioDescription
\* The graph built by the loop over the registry: an AssumptionDependency for an
\* assumed test, the test itself otherwise.
\* A graph that also gets a node for every assumed name, registered or not.
AddEveryAssumption(d, tests) ==
    LET node(n) == IF Contains(d.assumptions, n) \/ n \notin DOMAIN tests
                   THEN [name |-> to_string(n), requirements |-> NoStrings,
                         suggestions |-> NoStrings, provides |-> NoStrings]
                   ELSE TestDependency(n, tests[n])
        nodes == {node(n) : n \in DOMAIN tests \cup Range(d.assumptions)}
    IN  [s \in {x.name : x \in nodes} |-> CHOOSE x \in nodes : x.name = s]

AddWithoutRequirements(d, tests) ==
    LET node(n) == AssumptionDependency(to_string(n), tests[n])
        nodes == {node(n) : n \in DOMAIN tests}
    IN  [s \in {x.name : x \in nodes} |-> CHOOSE x \in nodes : x.name = s]

add_dependencies(d, tests) ==
    LET node(n) == IF Contains(d.assumptions, n)
                   THEN AssumptionDependency(to_string(n), tests[n])
                   ELSE TestDependency(n, tests[n])
        nodes == {node(n) : n \in DOMAIN tests}
    IN  [s \in {x.name : x \in nodes} |-> CHOOSE x \in nodes : x.name = s]

\* Only add the test to the test order if it's not an assumption.
KeepAll(d, test_name) == TRUE

keep_in_order(d, test_name) == ~Contains(d.assumptions, test_name)

RECURSIVE trim_order(_, _, _)
\* The loop over test_sequence_strings: parse each name back, keep the non-assumed.
trim_order(d, strings, test_order) ==
    IF ~test_order.ok \/ strings = <<>> THEN test_order
    ELSE LET parsed == from_str(Head(strings), "test")
         IN  IF ~parsed.ok
             THEN [ok |-> FALSE, order |-> <<>>, reason |-> "panic"]
             ELSE trim_order(d, Tail(strings),
                             IF keep_in_order(d, parsed.name)
                             THEN Ok(Append(test_order.order, parsed.name))
                             ELSE test_order)

\* An order made of the names as listed, once the resolver has accepted them.
GetTestOrderAsListed(d, tests) ==
    LET graph == add_dependencies(d, tests)
        test_names == [i \in 1..Len(d.tests) |-> to_string(d.tests[i])]
        test_sequence_strings == resolve_named_dependencies(graph, test_names)
    IN  IF ~test_sequence_strings.ok
        THEN Err(test_sequence_strings.reason)
        ELSE trim_order(d, test_names, Ok(<<>>))

\* let test_sequence_strings = graph.resolve_named_dependencies(&test_names)?;
\* the ? returns the resolver's error to the caller.
GetTestOrderLenient(d, tests) ==
    LET graph == add_dependencies(d, tests)
        test_names == [i \in 1..Len(d.tests) |-> to_string(d.tests[i])]
        test_sequence_strings == resolve_named_dependencies(graph, test_names)
    IN  trim_order(d, test_sequence_strings.order, Ok(<<>>))

get_test_order(d, tests) ==
    LET graph == add_dependencies(d, tests)
        test_names == [i \in 1..Len(d.tests) |-> to_string(d.tests[i])]
        test_sequence_strings == resolve_named_dependencies(graph, test_names)
    IN  IF ~test_sequence_strings.ok
        THEN Err(test_sequence_strings.reason)
        ELSE trim_order(d, test_sequence_strings.order, Ok(<<>>))

\* The jig phase: the loop sets loaded for any listed jig that is loaded.
AllJigsLoaded(d, jigs) == \A i \in 1..Len(d.jigs) : jig_is_loaded(jigs, d.jigs[i])

any_jig_loaded(d, jigs) == \E i \in 1..Len(d.jigs) : jig_is_loaded(jigs, d.jigs[i])

\* "Build the dependency graph, but don't use the result."
IsCompatibleDiscarding(d, tests, jigs) ==
    IF Len(d.jigs) > 0 /\ ~any_jig_loaded(d, jigs)
    THEN Err("IncompatibleJig")
    ELSE IF get_test_order(d, tests).ok THEN Ok(<<>>) ELSE get_test_order(d, tests)

is_compatible(d, tests, jigs) ==
    IF Len(d.jigs) > 0 /\ ~any_jig_loaded(d, jigs)
    THEN Err("IncompatibleJig")
    ELSE get_test_order(d, tests)

\* Scenario::new filling the map from the description's Tests list.
ScenarioNewMapFromTests(d, test_order, tests) ==
    IF \E i \in 1..Len(test_order) : ~get_test(tests, test_order[i]).some
    THEN [built |-> FALSE, panic |-> TRUE, test_sequence |-> <<>>, tests |-> <<>>]
    ELSE [built |-> TRUE, panic |-> FALSE,
          test_sequence |-> [i \in 1..Len(test_order) |->
                                get_test(tests, test_order[i]).handle],
          tests |-> [n \in Range(d.tests) \cap DOMAIN tests |-> get_test(tests, n).handle]]

\* Scenario::new filling test_sequence only.
ScenarioNewSequenceOnly(d, test_order, tests) ==
    IF \E i \in 1..Len(test_order) : ~get_test(tests, test_order[i]).some
    THEN [built |-> FALSE, panic |-> TRUE, test_sequence |-> <<>>, tests |-> <<>>]
    ELSE [built |-> TRUE, panic |-> FALSE,
          test_sequence |-> [i \in 1..Len(test_order) |->
                                get_test(tests, test_order[i]).handle],
          tests |-> <<>>]

\* Scenario::new: check out every test of the order.
Scenario_new(d, test_order, tests) ==
    IF \E i \in 1..Len(test_order) : ~get_test(tests, test_order[i]).some
    THEN [built |-> FALSE, panic |-> TRUE, test_sequence |-> <<>>, tests |-> <<>>]
    ELSE [built |-> TRUE, panic |-> FALSE,
          test_sequence |-> [i \in 1..Len(test_order) |->
                                get_test(tests, test_order[i]).handle],
          tests |-> [n \in Range(test_order) |-> get_test(tests, n).handle]]

NoScenario == [built |-> FALSE, panic |-> FALSE, test_sequence |-> <<>>, tests |-> <<>>]

\* select without the jig phase of is_compatible.
SelectUnchecked(d, tests, jigs) ==
    LET test_order == get_test_order(d, tests)
    IN  IF test_order.ok
        THEN [ok |-> TRUE, order |-> test_order.order, reason |-> "none",
              scenario |-> Scenario_new(d, test_order.order, tests)]
        ELSE [ok |-> FALSE, order |-> <<>>, reason |-> test_order.reason,
              scenario |-> NoScenario]

\* let test_order = self.is_compatible(manager, config)?;
\* Ok(Scenario::new(self, test_order, manager))
select(d, tests, jigs) ==
    LET test_order == is_compatible(d, tests, jigs)
    IN  IF test_order.ok
        THEN [ok |-> TRUE, order |-> test_order.order, reason |-> "none",
              scenario |-> Scenario_new(d, test_order.order, tests)]
        ELSE [ok |-> FALSE, order |-> <<>>, reason |-> test_order.reason,
              scenario |-> NoScenario]

\* Scenario::uses_test
uses_test(sc, test_name) == test_name \in DOMAIN sc.tests

\* ================================================================ lifecycle
\* ------------------------------------------------------------- UnitStatus
NoPath == Text("", "")
NoReason == ""

\* A UnitStatus variant with the data it carries.
UnitStatus(tag, path, reason) == [tag |-> tag, path |-> path, reason |-> reason]

UnitStatusEvent(name, status) == [name |-> name, status |-> status]

\* The unit file of a unit, and UnitName::from_path on a path.
PathOf(name) == to_string(name)

\* The kind comes from the extension and the name from the stem; a path without
\* a stem or with an extension that is no unit kind is an error.
from_path(path) ==
    IF path.stem = "" THEN [ok |-> FALSE, name |-> UnitName("", "")]
    ELSE from_str(path, "")

None ==
    [some |-> FALSE,
     event |-> UnitStatusEvent(UnitName("", ""), UnitStatus("", NoPath, NoReason))]
Some(event) == [some |-> TRUE, event |-> event]

\* new_removed answering a bad path with an event that has no name.
NewRemovedUnnamed(path) ==
    Some(UnitStatusEvent(from_path(path).name, UnitStatus("Removed", path, NoReason)))

new_added(path) ==
    IF ~from_path(path).ok THEN None
    ELSE Some(UnitStatusEvent(from_path(path).name, UnitStatus("Added", path, NoReason)))

new_updated(path) ==
    IF ~from_path(path).ok THEN None
    ELSE Some(UnitStatusEvent(from_path(path).name, UnitStatus("Updated", path, NoReason)))

new_removed(path) ==
    IF ~from_path(path).ok THEN None
    ELSE Some(UnitStatusEvent(from_path(path).name, UnitStatus("Removed", path, NoReason)))

NewSelectedAsActive(name) == UnitStatusEvent(name, UnitStatus("Active", NoPath, NoReason))

new_selected(name) == UnitStatusEvent(name, UnitStatus("Selected", NoPath, NoReason))

new_load_started(name, path) == UnitStatusEvent(name, UnitStatus("LoadStarted", path, NoReason))

new_update_started(name, path) == UnitStatusEvent(name, UnitStatus("UpdateStarted", path, NoReason))

new_load_failed(name, msg) == UnitStatusEvent(name, UnitStatus("LoadFailed", NoPath, msg))

new_active(name) == UnitStatusEvent(name, UnitStatus("Active", NoPath, NoReason))

new_active_failed(name, msg) == UnitStatusEvent(name, UnitStatus("ActivationFailed", NoPath, msg))

new_deactivate_success(name, msg) ==
    UnitStatusEvent(name, UnitStatus("DeactivatedSuccessfully", NoPath, msg))

new_deactivate_failure(name, msg) ==
    UnitStatusEvent(name, UnitStatus("DeactivatedUnsuccessfully", NoPath, msg))

new_unit_incompatible(name, msg) == UnitStatusEvent(name, UnitStatus("Incompatible", NoPath, msg))

new_deselected(name) == UnitStatusEvent(name, UnitStatus("Deselected", NoPath, NoReason))

new_unload_started(name, path) == UnitStatusEvent(name, UnitStatus("UnloadStarted", path, NoReason))

\* ------------------------------------------------------------ the manager
\* The manager drives each unit through the lifecycle and emits one status event
\* per transition.
Units == {UnitName("a", "test"), UnitName("j1", "jig")}

Reasons == {"reason"}

LoadedStates == {"Deselected", "Selected", "Active", "Deactivated"}

NoNotify == [call |-> "none", path |-> NoPath, result |-> None]

LifeIdle ==
    /\ unit_state = [u \in Units |-> "Unloaded"]
    /\ status_log = <<>>
    /\ notify = NoNotify

\* The event goes out on the bus; the log is what a subscriber present from the
\* start receives.
emit(u, to, event) ==
    /\ Len(status_log) < MaxLog
    /\ unit_state' = [unit_state EXCEPT ![u] = to]
    /\ status_log' = Append(status_log, event)
    /\ UNCHANGED <<bus_vars, scen_vars, notify>>

unit_load_start(u) ==
    /\ unit_state[u] \in {"Unloaded", "LoadFailed", "UpdateStarted"}
    /\ emit(u, "LoadStarted", new_load_started(u, PathOf(u)))

unit_load_fail(u) ==
    /\ unit_state[u] = "LoadStarted"
    /\ \E msg \in Reasons : emit(u, "LoadFailed", new_load_failed(u, msg))

unit_incompatible(u) ==
    /\ unit_state[u] = "LoadStarted"
    /\ \E msg \in Reasons : emit(u, "Incompatible", new_unit_incompatible(u, msg))

\* A successful load leaves the unit loaded and deselected; no event of its own.
unit_loaded(u) ==
    /\ unit_state[u] = "LoadStarted"
    /\ unit_state' = [unit_state EXCEPT ![u] = "Deselected"]
    /\ UNCHANGED <<bus_vars, scen_vars, status_log, notify>>

unit_select(u) ==
    /\ unit_state[u] = "Deselected"
    /\ emit(u, "Selected", new_selected(u))

unit_deselect(u) ==
    /\ unit_state[u] \in {"Selected", "Deactivated"}
    /\ emit(u, "Deselected", new_deselected(u))

unit_activate(u) ==
    /\ unit_state[u] = "Selected"
    /\ emit(u, "Active", new_active(u))

unit_deactivate(u) ==
    /\ unit_state[u] = "Active"
    /\ \E msg \in Reasons :
        \/ emit(u, "Deactivated", new_deactivate_success(u, msg))
        \/ emit(u, "Deactivated", new_deactivate_failure(u, msg))
        \/ emit(u, "Deactivated", new_active_failed(u, msg))

unit_unload_start(u) ==
    /\ unit_state[u] \in LoadedStates
    /\ emit(u, "UnloadStarted", new_unload_started(u, PathOf(u)))

unit_update_start(u) ==
    /\ unit_state[u] \in LoadedStates
    /\ emit(u, "UpdateStarted", new_update_started(u, PathOf(u)))

unit_removed(u) ==
    /\ unit_state[u] = "UnloadStarted"
    /\ new_removed(PathOf(u)).some
    /\ emit(u, "Removed", new_removed(PathOf(u)).event)

LifecycleNext ==
    \E u \in Units :
        \/ unit_load_start(u)
        \/ unit_load_fail(u)
        \/ unit_incompatible(u)
        \/ unit_loaded(u)
        \/ unit_select(u)
        \/ unit_deselect(u)
        \/ unit_activate(u)
        \/ unit_deactivate(u)
        \/ unit_unload_start(u)
        \/ unit_update_start(u)
        \/ unit_removed(u)

\* ================================================== scenarios, continued
\* ------------------------------------------------------------------ inputs
\* Sequences without repetition, of at most n elements of S.
Lists0(S, n) ==
    {q \in UNION {[1..k -> S] : k \in 0..n} : \A i, j \in 1..Len(q) : q[i] = q[j] => i = j}

SeqsUpTo(S, n) == UNION {[1..k -> S] : k \in 0..n}

TestDecls ==
    [requirements : Lists0({to_string(n) : n \in TestNames}, MaxReqs),
     suggestions : {NoStrings}, provides : {NoStrings}]

JigLists == {<<>>, <<UnitName("j1", "jig")>>,
             <<UnitName("j1", "jig"), UnitName("j2", "jig")>>}

NoGraph == <<>>

\* A registry in which the assumed tests were replaced, not just the graph.
RegistryWithoutAssumed(d, tests) ==
    [n \in {m \in DOMAIN tests : ~Contains(d.assumptions, m)} |-> tests[n]]

\* The registry after a call: it is reached through manager.get_tests().borrow(),
\* a shared borrow, and each test is only read through its lock.
registry_after(d, tests) == tests

\* The graph a call leaves behind: is_compatible returns before building one
\* when the jig phase fails.
graph_of(d, tests, jigs, with_jig_phase) ==
    IF with_jig_phase /\ Len(d.jigs) > 0 /\ ~any_jig_loaded(d, jigs)
    THEN NoGraph
    ELSE add_dependencies(d, tests)

\* Test declarations that also suggest and provide names.
RichTestDecls ==
    [requirements : Lists0({to_string(n) : n \in TestNames}, MaxReqs),
     suggestions : {NoStrings, <<Text("c", "test")>>},
     provides : {NoStrings, <<Text("c", "test")>>}]

NoResult == [ok |-> FALSE, order |-> <<>>, reason |-> "none"]

ScenarioIdle ==
    /\ registry = <<>>
    /\ loaded_jigs = {}
    /\ desc = [jigs |-> <<>>, tests |-> <<>>, assumptions |-> <<>>]
    /\ call = "none"
    /\ result = NoResult
    /\ scenario = NoScenario
    /\ dep_graph = NoGraph

\* A manager holding any registry and any loaded jigs, and any parsed scenario.
ScenarioInit ==
    /\ \E K \in SUBSET TestNames : registry \in [K -> TestDecls]
    /\ loaded_jigs \in SUBSET JigNames
    /\ desc \in [jigs : JigLists,
                 tests : SeqsUpTo(TestNames, MaxTests),
                 assumptions : SeqsUpTo(TestNames, MaxAssume)]
    /\ call = "none"
    /\ result = NoResult
    /\ scenario = NoScenario
    /\ dep_graph = NoGraph

get_test_order_call ==
    /\ call = "none"
    /\ call' = "get_test_order"
    /\ result' = get_test_order(desc, registry)
    /\ dep_graph' = graph_of(desc, registry, loaded_jigs, FALSE)
    /\ registry' = registry_after(desc, registry)
    /\ UNCHANGED <<bus_vars, life_vars, loaded_jigs, desc, scenario>>

is_compatible_call ==
    /\ call = "none"
    /\ call' = "is_compatible"
    /\ result' = is_compatible(desc, registry, loaded_jigs)
    /\ dep_graph' = graph_of(desc, registry, loaded_jigs, TRUE)
    /\ registry' = registry_after(desc, registry)
    /\ UNCHANGED <<bus_vars, life_vars, loaded_jigs, desc, scenario>>

select_call ==
    /\ call = "none"
    /\ call' = "select"
    /\ LET r == select(desc, registry, loaded_jigs)
       IN  /\ result' = [ok |-> r.ok, order |-> r.order, reason |-> r.reason]
           /\ scenario' = r.scenario
    /\ dep_graph' = graph_of(desc, registry, loaded_jigs, TRUE)
    /\ registry' = registry_after(desc, registry)
    /\ UNCHANGED <<bus_vars, life_vars, loaded_jigs, desc>>

ScenarioNext == get_test_order_call \/ is_compatible_call \/ select_call

InitScenario == BusInit /\ ScenarioInit /\ LifeIdle

SpecScenario == InitScenario /\ [][ScenarioNext]_vars

\* A manager of two tests that also suggest and provide names.
GraphInit ==
    /\ \E K \in SUBSET {UnitName("a", "test"), UnitName("b", "test")} :
          registry \in [K -> RichTestDecls]
    /\ loaded_jigs \in SUBSET {UnitName("j1", "jig")}
    /\ desc \in [jigs : {<<>>, <<UnitName("j1", "jig")>>},
                 tests : SeqsUpTo(TestNames, MaxTests),
                 assumptions : SeqsUpTo(TestNames, MaxAssume)]
    /\ call = "none"
    /\ result = NoResult
    /\ scenario = NoScenario
    /\ dep_graph = NoGraph

InitGraph == BusInit /\ GraphInit /\ LifeIdle

SpecGraph == InitGraph /\ [][ScenarioNext]_vars

InitLifecycle == BusInit /\ ScenarioIdle /\ LifeIdle

SpecLifecycle == InitLifecycle /\ [][LifecycleNext]_vars

\* ------------------------------------------------------ file notifications
\* The paths a directory watcher may report: unit files, other files, and files
\* without a stem or without an extension.
PathStems == {"", "a", "b", "c", "j1", "j2", "s1"}
PathExts == {"", "test", "jig", "scenario", "txt", "rs"}
Paths == {Text(stem, ext) : stem \in PathStems, ext \in PathExts}

new_added_call(path) ==
    /\ notify' = [call |-> "new_added", path |-> path, result |-> new_added(path)]
    /\ UNCHANGED <<bus_vars, scen_vars, unit_state, status_log>>

new_updated_call(path) ==
    /\ notify' = [call |-> "new_updated", path |-> path, result |-> new_updated(path)]
    /\ UNCHANGED <<bus_vars, scen_vars, unit_state, status_log>>

new_removed_call(path) ==
    /\ notify' = [call |-> "new_removed", path |-> path, result |-> new_removed(path)]
    /\ UNCHANGED <<bus_vars, scen_vars, unit_state, status_log>>

PathsNext ==
    \E path \in Paths :
        \/ new_added_call(path)
        \/ new_updated_call(path)
        \/ new_removed_call(path)

InitPaths == BusInit /\ ScenarioIdle /\ LifeIdle

SpecPaths == InitPaths /\ [][PathsNext]_vars

\* ---------------------------------------------------------------- the bus
BusNextOn(T, H) ==
    \/ \E t \in T, h \in H : broadcast(t, h)
    \/ \E t \in T : broadcast_core_lock(t)
    \/ \E t \in T : broadcast_core_send(t)
    \/ \E t \in T : broadcast_core_remove(t)
    \/ \E t \in T, h \in H : subscribe(t, h)
    \/ \E t \in T : subscribe_push(t)
    \/ \E c \in Chans : drop_receiver(c)

\* Several threads publish and subscribe through one handle.
Next == BusNextOn(Threads, {1})

\* The bus as constructed; no scenario call is in play.
Init == BusInit /\ ScenarioIdle /\ LifeIdle

Spec == Init /\ [][Next]_vars

\* One thread works through the original handle and its clones.
CloneNext == Clone \/ BusNextOn({"t1"}, Handles)

SpecClone == Init /\ [][CloneNext]_vars

\* Every waiting or running step of a call is eventually taken: threads are scheduled,
\* and a released Mutex is handed to a waiter.
FairSpec ==
    /\ Spec
    /\ \A t \in Threads :
        /\ WF_vars(broadcast_core_lock(t))
        /\ WF_vars(broadcast_core_send(t))
        /\ WF_vars(broadcast_core_remove(t))
        /\ WF_vars(subscribe_push(t))

\* ------------------------------------------------------------- properties
Done(e) == hist[e].done

ListOf(e) == bus[hist[e].handle]

Snapshot(e) == hist[e].snapshot

NoPanic == \A t \in Threads : pc[t] # "panicked"

\* The entry of the snapshot with the highest index among those whose send failed.
LastFailed(e) ==
    LET s == Snapshot(e)
        f == {i \in 1..Len(s) : s[i] \in hist[e].failed}
    IN  s[CHOOSE i \in f : \A j \in f : j <= i]

\* C1. Fan-out completeness: a completed broadcast(e) over N registered subscribers
\* whose receivers are all alive left exactly one copy of e in the queue of each.
C1_FanOutComplete ==
    \A e \in Events :
        (Done(e) /\ \A c \in Range(Snapshot(e)) : alive[c])
            => \A c \in Range(Snapshot(e)) : Count(e, queue[c]) = 1

C1_Witness ==
    \E e \in Events :
        /\ Done(e)
        /\ Len(Snapshot(e)) = 2
        /\ \A c \in Range(Snapshot(e)) : alive[c] /\ Count(e, queue[c]) = 1

\* C2 as stated: once a broadcast call that started after a subscriber dropped its
\* receiver has completed, that subscriber is not in the list, whichever subscriber
\* it is and however many are dead, and the call completed normally.
C2_AnyDeadPruned ==
    /\ NoPanic
    /\ \A e \in Events :
        Done(e) => \A c \in hist[e].dead_at_start : c \notin Range(senders[ListOf(e)])

\* C2 amended: the call completes normally, every subscriber that was dead when the
\* call started and is still listed fails its send, and the one removed is the last
\* (highest index) subscriber whose send failed in that call.
C2_LastDeadPruned ==
    /\ NoPanic
    /\ \A e \in Events :
        Done(e) =>
            \A c \in hist[e].dead_at_start \cap Range(Snapshot(e)) :
                /\ c \in hist[e].failed
                /\ c = LastFailed(e) => c \notin Range(senders[ListOf(e)])

C2_Witness ==
    \E e \in Events :
        /\ Done(e)
        /\ Cardinality(hist[e].dead_at_start \cap Range(Snapshot(e))) = 2
        /\ LastFailed(e) \notin Range(senders[ListOf(e)])
        /\ Len(senders[ListOf(e)]) = 1

\* C3. Subscribe/broadcast atomicity: a subscriber whose subscribe() returned before
\* broadcast(e) started and whose receiver is alive has e in its queue once the call
\* has completed; a subscriber whose subscribe() started after broadcast(e) completed
\* never has e in its queue.
C3_Atomicity ==
    \A e \in Events :
        Done(e) =>
            /\ \A c \in hist[e].started_with : alive[c] => e \in Range(queue[c])
            /\ \A c \in Registered :
                   e \in sub_hist[c].done_before => e \notin Range(queue[c])

C3_Witness ==
    \E e \in Events, c, d \in Registered :
        /\ Done(e)
        /\ c \in hist[e].started_with /\ alive[c] /\ e \in Range(queue[c])
        /\ e \in sub_hist[d].done_before /\ e \notin Range(queue[d])
        /\ \E f \in Events : f \in Range(queue[d])

\* C4. Dead listeners never disturb live ones: in a completed broadcast(e) over a
\* list mixing dead and live subscribers, every subscriber of the list that is alive
\* got e exactly once.
C4_LiveUndisturbed ==
    \A e \in Events :
        Done(e) =>
            \A i \in 1..Len(Snapshot(e)) :
                alive[Snapshot(e)[i]] => Count(e, queue[Snapshot(e)[i]]) = 1

C4_Witness ==
    \E e \in Events :
        /\ Done(e)
        /\ \E i, j \in 1..Len(Snapshot(e)) :
            /\ i < j
            /\ Snapshot(e)[i] \in hist[e].failed
            /\ alive[Snapshot(e)[j]]
            /\ Count(e, queue[Snapshot(e)[j]]) = 1

\* C5. Per-subscriber ordering: two events broadcast by the same publisher thread
\* stand in every queue in the order of the two calls (events are numbered in call
\* order), so the order is the same for all subscribers.
C5_Ordering ==
    \A c \in Chans :
        \A i, j \in 1..Len(queue[c]) :
            (i < j /\ hist[queue[c][i]].thread = hist[queue[c][j]].thread)
                => queue[c][i] < queue[c][j]

C5_Witness ==
    /\ \A c \in Chans : queue[c] = <<1, 2>>
    /\ hist[1].thread = hist[2].thread
    /\ Done(2)

\* C6. Eventual pruning: with k dead subscribers listed at the last subscribe or
\* drop, after n further broadcast calls at most k - n dead subscribers are listed
\* (none once n >= k), and a subscriber whose receiver is alive is never removed.
C6_EventualPruning ==
    /\ \A l \in Lists :
        LET d == DeadEntries(senders[l], alive)
        IN  IF quiet[l] >= dead0[l] THEN d = 0 ELSE d <= dead0[l] - quiet[l]
    /\ \A c \in Registered :
        alive[c] => c \in Range(senders[bus[sub_hist[c].handle]])

C6_Witness ==
    /\ dead0[1] = 2
    /\ quiet[1] = 2
    /\ DeadEntries(senders[1], alive) = 0
    /\ senders[1] = <<>>

\* C7. Broadcast never stalls: every call that has started returns, and a held lock
\* is released, whatever sits undrained in the queues and whoever is dead.
C7_NeverStalls ==
    /\ \A t \in Threads : (pc[t] # "idle") ~> (pc[t] = "idle")
    /\ \A l \in Lists : (mutex[l] # "free") ~> (mutex[l] = "free")

C7_Witness ==
    \E t, u \in Threads :
        /\ pc[t] \in {"bc_lock", "sub_push"}
        /\ mutex[1] = u
        /\ pc[u] = "bc_send"
        /\ to_remove[u] # -1
        /\ \E c \in Chans : Len(queue[c]) >= 1 /\ c \in Range(senders[1])

\* C8. Clones share one subscriber list: every handle sees the same list, so a
\* pruning through one handle shows through the others, and a live subscriber that
\* registered through one handle before a broadcast through another started has
\* the event once that call has completed.
C8_ClonesShare ==
    /\ \A h, g \in Handles :
        (bus[h] # 0 /\ bus[g] # 0) => senders[bus[h]] = senders[bus[g]]
    /\ \A e \in Events :
        Done(e) =>
            \A c \in hist[e].started_with :
                (alive[c] /\ sub_hist[c].handle # hist[e].handle)
                    => e \in Range(queue[c])

C8_Witness ==
    \E e, f \in Events, c \in Registered :
        /\ Done(e) /\ Done(f)
        /\ sub_hist[c].handle # hist[e].handle
        /\ e \in Range(queue[c])
        /\ hist[f].failed # {}
        /\ hist[f].handle # sub_hist[LastFailed(f)].handle
        /\ \A h \in Handles : bus[h] # 0 /\ LastFailed(f) \notin Range(senders[bus[h]])

\* C9. Jig gating: is_compatible (also when select runs it) fails with
\* IncompatibleJig exactly when the jig list is non-empty and none of its jigs is
\* loaded, whatever the test dependencies are.
C9_JigGating ==
    call \in {"is_compatible", "select"} =>
        ((~result.ok /\ result.reason = "IncompatibleJig")
            <=> (Len(desc.jigs) > 0
                 /\ \A i \in 1..Len(desc.jigs) : desc.jigs[i] \notin loaded_jigs))

C9_Witness ==
    /\ call = "is_compatible"
    /\ Len(desc.jigs) = 1
    /\ loaded_jigs # {}
    /\ ~result.ok /\ result.reason = "IncompatibleJig"
    /\ get_test_order(desc, registry).ok
    /\ Len(get_test_order(desc, registry).order) = 2

\* C10. Assumptions are never scheduled: no name of the assumption list is in an
\* order that get_test_order, is_compatible or select returned, nor in the
\* sequence or the lookup set of the Scenario built from it.
C10_AssumptionsNeverScheduled ==
    \A i \in 1..Len(desc.assumptions) :
        LET a == desc.assumptions[i]
        IN  /\ (call # "none" /\ result.ok) => ~Contains(result.order, a)
            /\ scenario.built =>
                /\ ~Contains(scenario.test_sequence, Arc(a))
                /\ ~uses_test(scenario, a)

C10_Witness ==
    /\ call = "select"
    /\ result.ok
    /\ scenario.built
    /\ Len(result.order) = 1
    /\ Len(desc.assumptions) = 1
    /\ Contains(desc.tests, desc.assumptions[1])
    /\ \E n \in DOMAIN registry :
        /\ Contains(result.order, n)
        /\ Contains(registry[n].requirements, to_string(desc.assumptions[1]))

\* ------------------------------------------- the declared dependency graph
\* The declarations as sets, read off the registry and the description directly.
NameOf(s) == UnitName(s.stem, s.ext)

Assumed(n) == Contains(desc.assumptions, n)

\* What a test needs as the graph sees it: nothing for an assumed registry test.
Needs(n) ==
    IF n \in DOMAIN registry /\ ~Assumed(n)
    THEN {NameOf(s) : s \in Range(registry[n].requirements)}
    ELSE {}

\* What a test declares, assumed or not.
Declares(n) ==
    IF n \in DOMAIN registry
    THEN {NameOf(s) : s \in Range(registry[n].requirements)}
    ELSE {}

RECURSIVE NeedsClosure(_, _)
NeedsClosure(X, k) ==
    IF k = 0 THEN X ELSE NeedsClosure(X \cup UNION {Needs(n) : n \in X}, k - 1)

RECURSIVE DeclaresClosure(_, _)
DeclaresClosure(X, k) ==
    IF k = 0 THEN X ELSE DeclaresClosure(X \cup UNION {Declares(n) : n \in X}, k - 1)

Depth == Cardinality(TestNames) + 1

\* The tests reachable from the Tests list through non-assumed requirements.
Reach == NeedsClosure(Range(desc.tests), Depth)

MissingDependency == \E n \in Reach : n \notin DOMAIN registry

CyclicDependency == \E n \in Reach : n \in NeedsClosure(Needs(n), Depth)

\* C11. Assumption transparency: with Tests = [A], A a registry test that is not
\* assumed, and every requirement B of A an assumed registry test, get_test_order
\* succeeds with an order that holds A and no such B, whatever B itself declares.
C11_AssumptionTransparency ==
    (/\ call = "get_test_order"
     /\ Len(desc.tests) = 1
     /\ desc.tests[1] \in DOMAIN registry
     /\ ~Assumed(desc.tests[1])
     /\ Needs(desc.tests[1]) # {}
     /\ \A b \in Needs(desc.tests[1]) : b \in DOMAIN registry /\ Assumed(b))
        => /\ result.ok
           /\ Contains(result.order, desc.tests[1])
           /\ \A b \in Needs(desc.tests[1]) : ~Contains(result.order, b)

C11_Witness ==
    /\ call = "get_test_order"
    /\ Len(desc.tests) = 1
    /\ desc.tests[1] \in DOMAIN registry
    /\ \E b \in DOMAIN registry :
        /\ b # desc.tests[1]
        /\ Needs(desc.tests[1]) = {b}
        /\ Assumed(b)
        /\ \E r \in Declares(b) : r \notin DOMAIN registry \/ b \in Declares(r)
    /\ result.ok
    /\ result.order = <<desc.tests[1]>>

\* C12. Cycle and missing-dependency rejection: when the tests reachable from the
\* Tests list through non-assumed requirements hold a cycle or a name that is not
\* a registry test, get_test_order returns a reason and no order.
C12_Rejection ==
    (call = "get_test_order" /\ (MissingDependency \/ CyclicDependency))
        => /\ ~result.ok
           /\ result.order = <<>>
           /\ result.reason \in {"DependencyNotFound", "CircularDependency"}

C12_Witness ==
    /\ call = "get_test_order"
    /\ desc.assumptions = <<>>
    /\ Len(desc.tests) = 1
    /\ CyclicDependency
    /\ ~MissingDependency
    /\ \E b \in DOMAIN registry : b # desc.tests[1] /\ b \in Needs(desc.tests[1])
    /\ ~result.ok
    /\ result.reason = "CircularDependency"

\* Position of a name in an order (0 when absent).
IndexOf(order, n) ==
    IF Contains(order, n) THEN CHOOSE i \in 1..Len(order) : order[i] = n ELSE 0

\* Every test of the order comes after each of its non-assumed requirements.
AfterRequirements(order) ==
    \A i \in 1..Len(order) : \A r \in Needs(order[i]) :
        ~Assumed(r) => IndexOf(order, r) \in 1..(i - 1)

\* C13 as stated. A returned order contains every listed non-assumed test and
\* every non-assumed registry test that they transitively require by declaration,
\* each exactly once, and every test comes after its non-assumed requirements.
C13_DeclaredClosureOrdered ==
    (call = "get_test_order" /\ result.ok)
        => /\ \A n \in DeclaresClosure({m \in Range(desc.tests) : ~Assumed(m)}, Depth) :
                (n \in DOMAIN registry /\ ~Assumed(n)) => Count(n, result.order) = 1
           /\ AfterRequirements(result.order)

\* C13. Valid linear order with implicit prerequisites: a returned order contains
\* every listed non-assumed test and every non-assumed test they reach through
\* requirements of non-assumed tests, each exactly once and nothing else, and
\* every test comes after all of its non-assumed requirements.
C13_ValidOrder ==
    (call = "get_test_order" /\ result.ok)
        => /\ \A n \in Reach : ~Assumed(n) => Count(n, result.order) = 1
           /\ \A i \in 1..Len(result.order) :
                /\ result.order[i] \in Reach
                /\ ~Assumed(result.order[i])
                /\ Count(result.order[i], result.order) = 1
           /\ AfterRequirements(result.order)

\* Tests = [main, cleanup], main requires setup, cleanup requires main.
C13_Witness ==
    /\ call = "get_test_order"
    /\ result.ok
    /\ Len(desc.tests) = 2
    /\ Len(result.order) = 3
    /\ result.order[2] = desc.tests[1]
    /\ result.order[3] = desc.tests[2]
    /\ Needs(desc.tests[1]) = {result.order[1]}
    /\ Needs(desc.tests[2]) = {desc.tests[1]}

\* The jig phase of is_compatible lets the scenario through.
JigPhasePasses == desc.jigs = <<>> \/ Range(desc.jigs) \cap loaded_jigs # {}

\* C14. Scenario membership: after select succeeds, uses_test(name) is true
\* exactly for the names of the order that select computed.
C14_Membership ==
    (call = "select" /\ result.ok)
        => /\ scenario.built
           /\ \A n \in TestNames \cup JigNames : uses_test(scenario, n) <=> Contains(result.order, n)

C14_Witness ==
    /\ call = "select"
    /\ result.ok
    /\ Len(result.order) = 2
    /\ \E n \in DOMAIN registry : ~uses_test(scenario, n)
    /\ \A i \in 1..2 : uses_test(scenario, result.order[i])

C16_SelectRevalidates ==
    call = "select"
        => LET c == is_compatible(desc, registry, loaded_jigs)
           IN  /\ result.ok <=> c.ok
               /\ scenario.built <=> c.ok
               /\ ~scenario.panic
               /\ c.ok => /\ Len(scenario.test_sequence) = Len(c.order)
                          /\ \A i \in 1..Len(c.order) :
                                /\ c.order[i] \in DOMAIN registry
                                /\ scenario.test_sequence[i] = Arc(c.order[i])
               /\ ~c.ok => /\ result.reason = c.reason
                           /\ scenario = NoScenario
                           /\ scenario.test_sequence = <<>>
                           /\ DOMAIN scenario.tests = {}

C16_Witness ==
    /\ call = "select"
    /\ ~JigPhasePasses
    /\ get_test_order(desc, registry).ok
    /\ Len(get_test_order(desc, registry).order) = 2
    /\ ~result.ok
    /\ result.reason = "IncompatibleJig"
    /\ ~scenario.built

\* The step that ends a broadcast call of thread t.
CallEnds(t) == pc[t] = "bc_remove" /\ pc'[t] = "idle"

\* The indices (1-based) of the list of t's call whose send failed in the call.
FailedAt(t) ==
    {i \in 1..Len(senders[lst[t]]) : senders[lst[t]][i] \in hist[ev[t]].failed}

\* C18 as stated. A call in which sends failed removes exactly one entry, the
\* failing one with the lowest index, and leaves every other entry registered.
C18_FirstFailedRemoved ==
    [][\A t \in Threads :
         (CallEnds(t) /\ FailedAt(t) # {})
            => \E i \in FailedAt(t) :
                 /\ \A j \in FailedAt(t) : i <= j
                 /\ senders'[lst[t]] = VecRemove(senders[lst[t]], i - 1)]_vars

\* C18 amended. One removal per call, last failing index: a call in which sends
\* failed removes exactly one entry, the failing one with the highest index, and
\* leaves every other entry, dead or alive, registered; a call in which no send
\* failed removes nothing.
C18_LastFailedRemoved ==
    [][\A t \in Threads :
         CallEnds(t)
            => IF FailedAt(t) = {}
               THEN senders'[lst[t]] = senders[lst[t]]
               ELSE \E i \in FailedAt(t) :
                      /\ \A j \in FailedAt(t) : j <= i
                      /\ senders'[lst[t]] = VecRemove(senders[lst[t]], i - 1)
                      /\ Len(senders'[lst[t]]) = Len(senders[lst[t]]) - 1]_vars

C18_Witness ==
    \E e \in Events :
        /\ Done(e)
        /\ Len(Snapshot(e)) = 3
        /\ hist[e].dead_at_start = Range(Snapshot(e))
        /\ hist[e].failed = Range(Snapshot(e))
        /\ senders[ListOf(e)] = <<Snapshot(e)[1], Snapshot(e)[2]>>

\* C19. Registration order: channels are numbered as they are registered; every
\* list holds its subscribers in increasing number, whatever was pruned, and a
\* call that has gone through k iterations has sent to (or failed on) exactly the
\* first k subscribers of the list.
C19_RegistrationOrder ==
    /\ \A l \in Lists : \A i, j \in 1..Len(senders[l]) :
         i < j => senders[l][i] < senders[l][j]
    /\ \A t \in Threads :
         pc[t] = "bc_send"
            => \A k \in 1..Len(senders[lst[t]]) :
                 LET c == senders[lst[t]][k]
                 IN  (ev[t] \in Range(queue[c]) \/ c \in hist[ev[t]].failed)
                        <=> k <= idx[t]

C19_Witness ==
    /\ senders[1] = <<1, 3>>
    /\ alive[1] /\ alive[3]
    /\ \E t \in Threads :
         /\ pc[t] = "bc_send"
         /\ idx[t] = 1
         /\ ev[t] \in Range(queue[1])
         /\ ev[t] \notin Range(queue[3])
    /\ \E e \in Events : Done(e) /\ hist[e].failed = {2}

\* A subscriber registered through subscribe() and never failed on by any call.
NeverFailed(c) == \A e \in Events : c \notin hist[e].failed

\* C20. Lazy cancellation: dropping a receiver changes no list; a list changes
\* only when a subscribe appends exactly one new entry or when a broadcast call
\* ends by removing one entry whose send failed in that call; so a subscriber no
\* call has failed on is still registered, dead or not.
C20_LazyCancellation ==
    /\ [](\A c \in Registered :
            NeverFailed(c) => c \in Range(senders[bus[sub_hist[c].handle]]))
    /\ [][/\ (alive' # alive /\ nchan' = nchan) => senders' = senders
          /\ \A l \in Lists :
               senders'[l] # senders[l]
                  => \/ \E t \in Threads :
                          /\ pc[t] = "sub_push" /\ pc'[t] = "idle" /\ lst[t] = l
                          /\ nchan' \notin Range(senders[l])
                          /\ senders'[l] = Append(senders[l], nchan')
                     \/ \E t \in Threads :
                          /\ CallEnds(t) /\ lst[t] = l
                          /\ \E i \in FailedAt(t) :
                               senders'[l] = VecRemove(senders[l], i - 1)]_vars

C20_Witness ==
    /\ \A t \in Threads : pc[t] = "idle"
    /\ \E c, d \in Registered :
         /\ ~alive[c] /\ NeverFailed(c) /\ c \in Range(senders[1])
         /\ ~alive[d] /\ d \notin Range(senders[1])
    /\ \E e \in Events : Done(e) /\ hist[e].failed # {}

\* The status tags of one unit's events, in the order they were emitted.
Tag(i) == status_log[i].status.tag

\* C17. Lifecycle directionality: every Active event of a unit has an earlier
\* Selected event of that unit with no Deselected event of that unit in between.
C17_ActiveAfterSelected ==
    \A i \in 1..Len(status_log) :
        Tag(i) = "Active"
            => \E j \in 1..(i - 1) :
                 /\ status_log[j].name = status_log[i].name
                 /\ Tag(j) = "Selected"
                 /\ \A k \in (j + 1)..(i - 1) :
                      ~(status_log[k].name = status_log[i].name /\ Tag(k) = "Deselected")

C17_Witness ==
    \E i, j, k \in 1..Len(status_log) :
        /\ j < k /\ k < i
        /\ Tag(i) = "Active"
        /\ status_log[j].name = status_log[i].name /\ Tag(j) = "Selected"
        /\ status_log[k].name = status_log[i].name /\ Tag(k) = "Deselected"

\* C21. No lost registration and no wrongful removal under concurrency: in every
\* interleaving, a subscriber no call has failed on is in the list exactly once,
\* a subscriber whose receiver is alive is in the list, the list a call works on
\* is the one it saw when it took the lock, and the index it recorded denotes a
\* subscriber whose send failed in that call and whose receiver is gone.
C21_NoLostNoWrongful ==
    /\ NoPanic
    /\ \A c \in Registered :
         LET s == senders[bus[sub_hist[c].handle]]
         IN  /\ Count(c, s) <= 1
             /\ (NeverFailed(c) \/ alive[c]) => Count(c, s) = 1
    /\ \A t \in Threads :
         pc[t] \in {"bc_send", "bc_remove"}
            => /\ senders[lst[t]] = Snapshot(ev[t])
               /\ to_remove[t] # -1
                    => /\ to_remove[t] < Len(senders[lst[t]])
                       /\ senders[lst[t]][to_remove[t] + 1] \in hist[ev[t]].failed
                       /\ ~alive[senders[lst[t]][to_remove[t] + 1]]

\* A call about to remove index 0 of a two-entry list whose second entry is
\* alive, while the other thread waits in subscribe for the lock.
C21_Witness ==
    \E t, u \in Threads :
        /\ pc[t] = "bc_remove"
        /\ to_remove[t] = 0
        /\ Len(senders[lst[t]]) = 2
        /\ alive[senders[lst[t]][2]]
        /\ pc[u] = "sub_push"
        /\ lst[u] = lst[t]

\* Position of event e in a queue that holds it.
PosIn(q, e) == CHOOSE i \in 1..Len(q) : q[i] = e

\* C22. Atomic fan-out across publishers: at most one call is inside its fan-out
\* pass on a list at a time, so two subscribers that both hold two events hold
\* them in the same relative order, whichever threads published them.
C22_AtomicFanOut ==
    /\ \A t, u \in Threads :
         (t # u /\ pc[t] \in {"bc_send", "bc_remove"} /\ pc[u] \in {"bc_send", "bc_remove"})
            => lst[t] # lst[u]
    /\ \A c, d \in Chans : \A e, f \in Events :
         (e # f /\ {e, f} \subseteq Range(queue[c]) /\ {e, f} \subseteq Range(queue[d]))
            => (PosIn(queue[c], e) < PosIn(queue[c], f)
                   <=> PosIn(queue[d], e) < PosIn(queue[d], f))

\* Two publishers, the later call won the lock: both queues hold e2 before e1.
C22_Witness ==
    \E c, d \in Chans :
        /\ c # d
        /\ queue[c] = <<2, 1>>
        /\ queue[d] = <<2, 1>>
        /\ hist[1].thread # hist[2].thread
        /\ Done(1) /\ Done(2)

\* C23. Sequence/set consistency of a Scenario: in a Scenario built by select the
\* execution sequence is the handles of the resolved order, in that order and
\* with no handle twice; every handle of the sequence is in the map under its
\* own name; the map holds nothing else, so its size is the sequence's length.
C23_SequenceSetConsistent ==
    (call = "select" /\ scenario.built)
        => LET seq == scenario.test_sequence
           IN  /\ Len(seq) = Len(result.order)
               /\ \A i \in 1..Len(seq) : seq[i] = Arc(result.order[i])
               /\ \A i, j \in 1..Len(seq) : seq[i] = seq[j] => i = j
               /\ \A i \in 1..Len(seq) :
                    /\ seq[i].arc \in DOMAIN scenario.tests
                    /\ scenario.tests[seq[i].arc] = seq[i]
               /\ \A n \in DOMAIN scenario.tests : \E i \in 1..Len(seq) : seq[i] = Arc(n)
               /\ Cardinality(DOMAIN scenario.tests) = Len(seq)

\* A scenario of three tests built from a Tests list that names two of them.
C23_Witness ==
    /\ call = "select"
    /\ scenario.built
    /\ Len(desc.tests) = 2
    /\ Len(scenario.test_sequence) = 3
    /\ Cardinality(DOMAIN scenario.tests) = 3

\* C24. Assumption node shape: the graph a resolution call builds has one node
\* per registry test, under the test's name; the node of an assumed test has
\* empty requirements, suggestions and provides, and the node of every other test
\* has the requirements, suggestions and provides the test declares.
C24_AssumptionNodeShape ==
    (call # "none" /\ result.reason # "IncompatibleJig")
        => /\ DOMAIN dep_graph = {to_string(n) : n \in DOMAIN registry}
           /\ \A n \in DOMAIN registry :
                LET node == dep_graph[to_string(n)]
                IN  /\ node.name = to_string(n)
                    /\ IF Assumed(n)
                       THEN /\ node.requirements = <<>>
                            /\ node.suggestions = <<>>
                            /\ node.provides = <<>>
                       ELSE /\ node.requirements = registry[n].requirements
                            /\ node.suggestions = registry[n].suggestions
                            /\ node.provides = registry[n].provides

\* An assumed test that declares a requirement, a suggestion and a provided name,
\* next to a test that is not assumed and provides a name.
C24_Witness ==
    /\ call = "get_test_order"
    /\ \E n, m \in DOMAIN registry :
        /\ Assumed(n)
        /\ registry[n].requirements # <<>>
        /\ registry[n].suggestions # <<>>
        /\ registry[n].provides # <<>>
        /\ dep_graph[to_string(n)].provides = <<>>
        /\ ~Assumed(m)
        /\ dep_graph[to_string(m)].provides # <<>>

\* The description with the assumed names that are not registry tests left out.
KnownAssumptionsOnly ==
    [desc EXCEPT !.assumptions = SelectSeq(desc.assumptions,
                                           LAMBDA a : a \in DOMAIN registry)]

\* C25 as stated. Every name of the assumption list is a test of the registry,
\* and so has a node in the graph a resolution call builds.
C25_AssumptionsAreRegistryTests ==
    /\ \A a \in Range(desc.assumptions) : a \in DOMAIN registry
    /\ (call # "none" /\ result.reason # "IncompatibleJig")
          => \A a \in Range(desc.assumptions) : to_string(a) \in DOMAIN dep_graph

\* C25 amended. The assumption list is not checked against the registry: in the
\* graph a resolution call builds, an assumed name has a node exactly when it is
\* a registry test, and the call returns what it returns for the description
\* without the assumed names that are not registry tests.
C25_OnlyKnownAssumptionsHaveNodes ==
    (call # "none" /\ result.reason # "IncompatibleJig")
        => /\ \A a \in Range(desc.assumptions) :
                to_string(a) \in DOMAIN dep_graph <=> a \in DOMAIN registry
           /\ dep_graph = add_dependencies(KnownAssumptionsOnly, registry)
           /\ result = get_test_order(KnownAssumptionsOnly, registry)

\* An assumed name that is no registry test, in a resolution that succeeds.
C25_Witness ==
    /\ call = "get_test_order"
    /\ \E a \in Range(desc.assumptions) :
         a \notin DOMAIN registry /\ to_string(a) \notin DOMAIN dep_graph
    /\ result.ok
    /\ Len(result.order) = 2

\* C26. Checkout never fails: every name of an order that is_compatible returns
\* is a key of the test registry and parses back as a name, so get_test finds a
\* handle for it and Scenario::new runs to its end.
C26_CheckoutNeverFails ==
    /\ call # "none" => result.reason # "panic"
    /\ (call \in {"is_compatible", "select"} /\ result.ok)
          => \A i \in 1..Len(result.order) :
                /\ result.order[i] \in DOMAIN registry
                /\ get_test(registry, result.order[i]).some
    /\ call = "select" => (~scenario.panic /\ (result.ok => scenario.built))

\* A listed name that is no registry test but is provided by one: the scenario is
\* built from the providing test.
C26_Witness ==
    /\ call = "select"
    /\ \E i \in 1..Len(desc.tests) : desc.tests[i] \notin DOMAIN registry
    /\ result.ok
    /\ Len(result.order) >= 1
    /\ scenario.built
    /\ Len(scenario.test_sequence) = Len(result.order)

\* C27. Resolution is read-only: a get_test_order, is_compatible or select call
\* leaves the test registry (its keys and what each test declares), the loaded
\* jigs and the ScenarioDescription as they were, whether it succeeds or fails.
C27_ResolutionReadOnly ==
    [][call' # call
          => /\ DOMAIN registry' = DOMAIN registry
             /\ \A n \in DOMAIN registry : registry'[n] = registry[n]
             /\ loaded_jigs' = loaded_jigs
             /\ desc' = desc]_vars

\* A failed selection over a registry that holds an assumed test with a
\* requirement of its own.
C27_Witness ==
    /\ call = "select"
    /\ ~result.ok
    /\ result.reason = "CircularDependency"
    /\ \E n \in DOMAIN registry : Assumed(n) /\ registry[n].requirements # <<>>
    /\ loaded_jigs # {}

\* The status variant each path-taking constructor stands for.
StatusOf(c) ==
    CASE c = "new_added" -> "Added"
      [] c = "new_updated" -> "Updated"
      [] c = "new_removed" -> "Removed"

\* A path names a unit when it has a stem and its extension is a unit kind.
NamesUnit(path) == path.stem # "" /\ path.ext \in UnitKinds

\* C28. Path-derived status events always carry identity: new_added, new_updated
\* and new_removed return an event exactly when the path names a unit; the event
\* then carries that name and the Added/Updated/Removed status holding the same
\* path; for any other path they return no event.
C28_PathEventsCarryIdentity ==
    notify.call # "none"
        => LET r == notify.result
               p == notify.path
           IN  /\ r.some <=> NamesUnit(p)
               /\ r.some => /\ r.event.name = UnitName(p.stem, p.ext)
                            /\ r.event.name.id # ""
                            /\ r.event.name.kind \in UnitKinds
                            /\ r.event.status.tag = StatusOf(notify.call)
                            /\ r.event.status.path = p
               /\ ~r.some => r = None

\* A removed file that is no unit file: no event.
C28_Witness ==
    /\ notify.call = "new_removed"
    /\ notify.path = Text("a", "txt")
    /\ ~notify.result.some

====
